---- MODULE Spec2Model ----
(***************************************************************************)
(* TumorLens frontend: the upload / status-polling session of App.js and   *)
(* the FileUpload dropzone that feeds it.                                   *)
(*                                                                         *)
(* React state (useState) is modelled by the four variables uploadedFile,  *)
(* analysisResults, loading and error.  The network and the timer queue    *)
(* are the sets uploads, queries and timers: one element per outstanding   *)
(* fetch / setTimeout, each tagged with the invocation of handleFileUpload *)
(* (gen) whose continuation it will resume.  The remaining variables are   *)
(* history variables that only record what the handlers did.               *)
(*                                                                         *)
(* The FileUpload component receives disabled={loading}; the prop is taken *)
(* to be the current value of loading (a render follows every state        *)
(* update before the next user event is dispatched).                       *)
(***************************************************************************)
EXTENDS Integers, Sequences, FiniteSets, TLC

\* ---------------------------------------------------------------- bounds
MaxSessions == 2      \* calls of handleFileUpload explored
MaxPending == 2       \* pending_analysis answers explored per session

\* ------------------------------------------------------------- constants
RepollDelay == 2000   \* setTimeout(..., 2000)
Half == 50000         \* the threshold 0.5, in units of 1/ScoreScale
ScoreScale == 100000  \* a prediction score s stands for s / ScoreScale

\* ------------------------------------------------------------ data model
Null == << >>                      \* JavaScript null (useState(null))
Some(x) == << x >>

Files == {"a.nii", "b.dcm"}        \* files the user may drop
Undefined == "undefined"           \* data.filename of a body without one
Filenames == Files                 \* job handles the backend may assign
Predictions == {30000, 86750}      \* prediction scores, in 1/ScoreScale
Visualizations == {Null, Some("data:image/png")}   \* results.visualization
OtherStatuses == {"failed"}        \* statuses the poller has no branch for

Sessions == 1..MaxSessions

MsgFetch == "Failed to fetch"                      \* err.message of a rejected fetch
MsgUpload == "Upload failed"
MsgJson == "Unexpected token"                      \* err.message of response.json()
MsgNull == "Cannot read properties of null"        \* err.message of data.filename
MsgPoll == "Failed to get analysis results"

UploadBodies == [filename : Filenames \cup {Undefined}]
CompletedBodies == [status : {"completed"}, prediction : Predictions,
                    visualization : Visualizations]

VARIABLES
    uploadedFile,      \* useState(null)
    analysisResults,   \* useState(null)
    loading,           \* useState(false)
    error,             \* useState(null)
    uploads,           \* outstanding POST /upload/ requests
    queries,           \* outstanding GET /analysis/{filename} requests
    timers,            \* scheduled setTimeout callbacks
    gen,               \* number of handleFileUpload calls so far
    phase,             \* history: gen -> session phase
    upResult,          \* history: gen -> how the upload request ended
    upIssued,          \* history: gen -> upload requests issued
    qIssued,           \* history: gen -> status queries issued
    tSched,            \* history: gen -> re-poll timers scheduled
    tFired,            \* history: gen -> re-poll timers fired
    pendRecv,          \* history: gen -> pending_analysis answers received
    lastEvent,         \* history: the handler that ran last
    rendered           \* the AnalysisResults element App shows, or null

view == <<uploadedFile, analysisResults, loading, error>>
net == <<uploads, queries, timers>>
hist == <<gen, phase, upResult, upIssued, qIssued, tSched, tFired, pendRecv>>
vars == <<uploadedFile, analysisResults, loading, error, uploads, queries,
          timers, gen, phase, upResult, upIssued, qIssued, tSched, tFired,
          pendRecv, lastEvent, rendered>>

Event(k, g) == [kind |-> k, gen |-> g, data |-> Null]
EventWith(k, g, d) == [kind |-> k, gen |-> g, data |-> Some(d)]

Init ==
    /\ uploadedFile = Null
    /\ analysisResults = Null
    /\ loading = FALSE
    /\ error = Null
    /\ uploads = {}
    /\ queries = {}
    /\ timers = {}
    /\ gen = 0
    /\ phase = [g \in Sessions |-> "None"]
    /\ upResult = [g \in Sessions |-> "none"]
    /\ upIssued = [g \in Sessions |-> 0]
    /\ qIssued = [g \in Sessions |-> 0]
    /\ tSched = [g \in Sessions |-> 0]
    /\ tFired = [g \in Sessions |-> 0]
    /\ pendRecv = [g \in Sessions |-> 0]
    /\ lastEvent = Event("init", 0)
    /\ rendered = Null

\* -------------------------------------------------------- AnalysisResults
\* Mutant: the threshold is inclusive.
isTumorDetected_Inclusive(results) == results.prediction >= Half

\* const isTumorDetected = results.prediction > 0.5
isTumorDetected(results) == results.prediction > Half

\* Mutant: Math.round(x * 100) / 100, which drops trailing zeros.
toFixed2_DropsZeros(num, den) ==
    LET n == (2 * 100 * num + den) \div (2 * den)
        w == n \div 100
        f == n % 100
    IN  IF f = 0 THEN ToString(w)
        ELSE IF f % 10 = 0 THEN ToString(w) \o "." \o ToString(f \div 10)
        ELSE ToString(w) \o "." \o ToString(f \div 10) \o ToString(f % 10)

\* Number.prototype.toFixed(2) of the non-negative number num / den: the
\* integer n with n / 100 closest to it (the larger n on a tie), written
\* with its integer part, a point and two digits.
toFixed2(num, den) ==
    LET n == (2 * 100 * num + den) \div (2 * den)
    IN  ToString(n \div 100) \o "." \o ToString((n \div 10) % 10)
                             \o ToString(n % 10)

\* const confidence = (results.prediction * 100).toFixed(2)
confidence(results) == toFixed2(results.prediction * 100, ScoreScale)

\* The element AnalysisResults returns: diagnosis text, Chip, optional image.
AnalysisResults(results) ==
    [label |-> IF isTumorDetected(results)
               THEN "Tumor Detected" ELSE "No Tumor Detected",
     chip |-> "Confidence: " \o confidence(results) \o "%",
     color |-> IF isTumorDetected(results) THEN "error" ELSE "success",
     img |-> IF results.visualization # Null
             THEN results.visualization ELSE Null]

\* {analysisResults && <AnalysisResults results={analysisResults} />},
\* evaluated on the state the step leaves.
Render ==
    rendered' = IF analysisResults' = Null
                THEN Null
                ELSE Some(AnalysisResults(analysisResults'[1]))

\* ------------------------------------------------------- handleFileUpload
\* Mutant: setError(null) is missing.
handleFileUpload_KeepsError(file) ==
    /\ gen < MaxSessions
    /\ gen' = gen + 1
    /\ loading' = TRUE
    /\ uploads' = uploads \cup {[gen |-> gen + 1, file |-> file]}
    /\ phase' = [phase EXCEPT ![gen + 1] = "Uploading"]
    /\ upIssued' = [upIssued EXCEPT ![gen + 1] = @ + 1]
    /\ lastEvent' = Event("select", gen + 1)
    /\ UNCHANGED <<uploadedFile, analysisResults, error, queries, timers,
                   upResult, qIssued, tSched, tFired, pendRecv>>

\* Mutant: a new session starts with setAnalysisResults(null).
handleFileUpload_ClearsResults(file) ==
    /\ gen < MaxSessions
    /\ gen' = gen + 1
    /\ loading' = TRUE
    /\ error' = Null
    /\ analysisResults' = Null
    /\ uploads' = uploads \cup {[gen |-> gen + 1, file |-> file]}
    /\ phase' = [phase EXCEPT ![gen + 1] = "Uploading"]
    /\ upIssued' = [upIssued EXCEPT ![gen + 1] = @ + 1]
    /\ lastEvent' = Event("select", gen + 1)
    /\ UNCHANGED <<uploadedFile, queries, timers, upResult, qIssued, tSched,
                   tFired, pendRecv>>

\* setLoading(true); setError(null); fetch(POST /upload/) -- then suspends.
handleFileUpload(file) ==
    /\ gen < MaxSessions
    /\ gen' = gen + 1
    /\ loading' = TRUE
    /\ error' = Null
    /\ uploads' = uploads \cup {[gen |-> gen + 1, file |-> file]}
    /\ phase' = [phase EXCEPT ![gen + 1] = "Uploading"]
    /\ upIssued' = [upIssued EXCEPT ![gen + 1] = @ + 1]
    /\ lastEvent' = Event("select", gen + 1)
    /\ UNCHANGED <<uploadedFile, analysisResults, queries, timers,
                   upResult, qIssued, tSched, tFired, pendRecv>>

\* A user event that reaches no handler.
Ignored(k) ==
    /\ lastEvent' = Event(k, gen)
    /\ UNCHANGED <<view, net, hist>>

\* FileUpload.onDrop: only a non-empty acceptedFiles reaches onFileUpload.
onDrop(acceptedFiles) ==
    IF Len(acceptedFiles) > 0
    THEN handleFileUpload(acceptedFiles[1])
    ELSE Ignored("dropEmpty")

\* Mutant: the dropzone is never disabled.
Drop_NeverDisabled(acceptedFiles) == onDrop(acceptedFiles)

\* useDropzone({onDrop, multiple: false, disabled}) with disabled={loading}.
Drop(acceptedFiles) ==
    IF loading
    THEN Ignored("dropDisabled")
    ELSE onDrop(acceptedFiles)


\* ------------------------------------------- handleFileUpload, resumed
\* Mutant: the catch block goes on to poll for the dropped file.
uploadCatch_ThenPolls(r, msg, k) ==
    /\ error' = Some(msg)
    /\ loading' = FALSE
    /\ uploads' = uploads \ {r}
    /\ queries' = queries \cup {[gen |-> r.gen, filename |-> r.file]}
    /\ qIssued' = [qIssued EXCEPT ![r.gen] = @ + 1]
    /\ phase' = [phase EXCEPT ![r.gen] = "Errored"]
    /\ upResult' = [upResult EXCEPT ![r.gen] = k]
    /\ lastEvent' = Event(k, r.gen)
    /\ UNCHANGED <<analysisResults, timers, gen, upIssued, tSched, tFired,
                   pendRecv>>

\* Mutant: the catch block submits the file again.
uploadCatch_Retries(r, msg, k) ==
    /\ error' = Some(msg)
    /\ loading' = FALSE
    /\ uploads' = uploads
    /\ upIssued' = [upIssued EXCEPT ![r.gen] = @ + 1]
    /\ phase' = [phase EXCEPT ![r.gen] = "Errored"]
    /\ upResult' = [upResult EXCEPT ![r.gen] = k]
    /\ lastEvent' = Event(k, r.gen)
    /\ UNCHANGED <<analysisResults, queries, timers, gen, qIssued, tSched,
                   tFired, pendRecv>>

\* Mutant: the catch block forgets setLoading(false).
uploadCatch_KeepsLoading(r, msg, k) ==
    /\ error' = Some(msg)
    /\ uploads' = uploads \ {r}
    /\ phase' = [phase EXCEPT ![r.gen] = "Errored"]
    /\ upResult' = [upResult EXCEPT ![r.gen] = k]
    /\ lastEvent' = Event(k, r.gen)
    /\ UNCHANGED <<analysisResults, loading, queries, timers, gen, upIssued,
                   qIssued, tSched, tFired, pendRecv>>

\* catch (err) { setError(err.message); setLoading(false); }
uploadCatch(r, msg, k) ==
    /\ error' = Some(msg)
    /\ loading' = FALSE
    /\ uploads' = uploads \ {r}
    /\ phase' = [phase EXCEPT ![r.gen] = "Errored"]
    /\ upResult' = [upResult EXCEPT ![r.gen] = k]
    /\ lastEvent' = Event(k, r.gen)
    /\ UNCHANGED <<analysisResults, queries, timers, gen, upIssued, qIssued,
                   tSched, tFired, pendRecv>>

\* await fetch(...) rejects.
UploadTransportError(r) ==
    /\ r \in uploads
    /\ uploadCatch(r, MsgFetch, "uploadTransport")
    /\ UNCHANGED uploadedFile

\* if (!response.ok) throw new Error('Upload failed')
UploadNotOk(r) ==
    /\ r \in uploads
    /\ uploadCatch(r, MsgUpload, "uploadNotOk")
    /\ UNCHANGED uploadedFile

\* response.ok, await response.json() rejects.
UploadBodyUnparseable(r) ==
    /\ r \in uploads
    /\ uploadCatch(r, MsgJson, "uploadBadJson")
    /\ UNCHANGED uploadedFile

\* response.ok, body parses to null: setUploadedFile(null), then
\* data.filename throws a TypeError.
UploadBodyNull(r) ==
    /\ r \in uploads
    /\ uploadedFile' = Null
    /\ uploadCatch(r, MsgNull, "uploadNullBody")

\* ---------------------------------------------------- pollAnalysisResults
\* fetch(`/analysis/${filename}`) -- then suspends.
pollAnalysisResults(g, filename) ==
    /\ queries' = queries \cup {[gen |-> g, filename |-> filename]}
    /\ qIssued' = [qIssued EXCEPT ![g] = @ + 1]

\* response.ok, body parses to data: setUploadedFile(data);
\* pollAnalysisResults(data.filename)  (not awaited).
UploadAccepted(r, data) ==
    /\ r \in uploads
    /\ uploadedFile' = Some(data)
    /\ uploads' = uploads \ {r}
    /\ pollAnalysisResults(r.gen, data.filename)
    /\ phase' = [phase EXCEPT ![r.gen] = "Polling"]
    /\ upResult' = [upResult EXCEPT ![r.gen] = "uploadAccepted"]
    /\ lastEvent' = EventWith("uploadAccepted", r.gen, data)
    /\ UNCHANGED <<analysisResults, loading, error, timers, gen, upIssued,
                   tSched, tFired, pendRecv>>

\* Mutant: the catch block schedules another poll.
pollCatch_Reschedules(q, k) ==
    /\ error' = Some(MsgPoll)
    /\ loading' = FALSE
    /\ queries' = queries \ {q}
    /\ timers' = timers \cup {[gen |-> q.gen, filename |-> q.filename,
                               delay |-> RepollDelay]}
    /\ tSched' = [tSched EXCEPT ![q.gen] = @ + 1]
    /\ phase' = [phase EXCEPT ![q.gen] = "Errored"]
    /\ lastEvent' = Event(k, q.gen)
    /\ UNCHANGED <<uploadedFile, analysisResults, uploads, gen, upResult,
                   upIssued, qIssued, tFired, pendRecv>>

\* catch (err) { setError('Failed to get analysis results'); setLoading(false); }
pollCatch(q, k) ==
    /\ error' = Some(MsgPoll)
    /\ loading' = FALSE
    /\ queries' = queries \ {q}
    /\ phase' = [phase EXCEPT ![q.gen] = "Errored"]
    /\ lastEvent' = Event(k, q.gen)
    /\ UNCHANGED <<uploadedFile, analysisResults, uploads, timers, gen,
                   upResult, upIssued, qIssued, tSched, tFired, pendRecv>>

\* await fetch(...) rejects.
PollTransportError(q) ==
    /\ q \in queries
    /\ pollCatch(q, "pollTransport")

\* await response.json() rejects.
PollBodyUnparseable(q) ==
    /\ q \in queries
    /\ pollCatch(q, "pollBadJson")

\* body parses to null: data.status throws a TypeError.
PollBodyNull(q) ==
    /\ q \in queries
    /\ pollCatch(q, "pollNullBody")

\* Mutant: the completed branch also schedules another poll.
PollCompleted_KeepsPolling(q, data) ==
    /\ q \in queries
    /\ analysisResults' = Some(data)
    /\ loading' = FALSE
    /\ queries' = queries \ {q}
    /\ timers' = timers \cup {[gen |-> q.gen, filename |-> q.filename,
                               delay |-> RepollDelay]}
    /\ phase' = [phase EXCEPT ![q.gen] = "Done"]
    /\ lastEvent' = EventWith("pollCompleted", q.gen, data)
    /\ UNCHANGED <<uploadedFile, error, uploads, gen, upResult, upIssued,
                   qIssued, tSched, tFired, pendRecv>>

\* Mutant: the completed branch forgets setLoading(false).
PollCompleted_KeepsLoading(q, data) ==
    /\ q \in queries
    /\ analysisResults' = Some(data)
    /\ queries' = queries \ {q}
    /\ phase' = [phase EXCEPT ![q.gen] = "Done"]
    /\ lastEvent' = EventWith("pollCompleted", q.gen, data)
    /\ UNCHANGED <<uploadedFile, loading, error, uploads, timers, gen,
                   upResult, upIssued, qIssued, tSched, tFired, pendRecv>>

\* data.status === 'completed'
PollCompleted(q, data) ==
    /\ q \in queries
    /\ analysisResults' = Some(data)
    /\ loading' = FALSE
    /\ queries' = queries \ {q}
    /\ phase' = [phase EXCEPT ![q.gen] = "Done"]
    /\ lastEvent' = EventWith("pollCompleted", q.gen, data)
    /\ UNCHANGED <<uploadedFile, error, uploads, timers, gen, upResult, upIssued,
                   qIssued, tSched, tFired, pendRecv>>

\* Mutant: the pending branch polls again at once and also sets the timer.
PollPending_PollsAtOnce(q) ==
    /\ q \in queries
    /\ pendRecv[q.gen] < MaxPending
    /\ queries' = queries
    /\ qIssued' = [qIssued EXCEPT ![q.gen] = @ + 1]
    /\ timers' = timers \cup {[gen |-> q.gen, filename |-> q.filename,
                               delay |-> RepollDelay]}
    /\ tSched' = [tSched EXCEPT ![q.gen] = @ + 1]
    /\ pendRecv' = [pendRecv EXCEPT ![q.gen] = @ + 1]
    /\ lastEvent' = Event("pollPending", q.gen)
    /\ UNCHANGED <<view, uploads, gen, phase, upResult, upIssued, tFired>>

\* Mutant: the pending branch gives up after the first re-poll.
PollPending_MaxAttempts(q) ==
    /\ q \in queries
    /\ pendRecv[q.gen] < MaxPending
    /\ queries' = queries \ {q}
    /\ pendRecv' = [pendRecv EXCEPT ![q.gen] = @ + 1]
    /\ lastEvent' = Event("pollPending", q.gen)
    /\ IF pendRecv[q.gen] >= 1
       THEN /\ error' = Some(MsgPoll)
            /\ loading' = FALSE
            /\ phase' = [phase EXCEPT ![q.gen] = "Errored"]
            /\ UNCHANGED <<uploadedFile, analysisResults, timers, tSched>>
       ELSE /\ timers' = timers \cup {[gen |-> q.gen, filename |-> q.filename,
                                       delay |-> RepollDelay]}
            /\ tSched' = [tSched EXCEPT ![q.gen] = @ + 1]
            /\ UNCHANGED <<view, phase>>
    /\ UNCHANGED <<uploads, gen, upResult, upIssued, qIssued, tFired>>

\* data.status === 'pending_analysis':
\* setTimeout(() => pollAnalysisResults(filename), 2000)
PollPending(q) ==
    /\ q \in queries
    /\ pendRecv[q.gen] < MaxPending
    /\ queries' = queries \ {q}
    /\ timers' = timers \cup {[gen |-> q.gen, filename |-> q.filename,
                               delay |-> RepollDelay]}
    /\ tSched' = [tSched EXCEPT ![q.gen] = @ + 1]
    /\ pendRecv' = [pendRecv EXCEPT ![q.gen] = @ + 1]
    /\ lastEvent' = Event("pollPending", q.gen)
    /\ UNCHANGED <<view, uploads, gen, phase, upResult, upIssued, qIssued,
                   tFired>>

\* any other data.status: neither branch of the if / else if is taken.
PollOtherStatus(q, status) ==
    /\ q \in queries
    /\ queries' = queries \ {q}
    /\ lastEvent' = EventWith("pollOther", q.gen, [status |-> status])
    /\ UNCHANGED <<view, uploads, timers, hist>>

\* Mutant: the timer repeats (setInterval in place of setTimeout).
TimerFires_Repeats(t) ==
    /\ t \in timers
    /\ tFired[t.gen] < MaxPending
    /\ timers' = timers
    /\ pollAnalysisResults(t.gen, t.filename)
    /\ tFired' = [tFired EXCEPT ![t.gen] = @ + 1]
    /\ lastEvent' = Event("timer", t.gen)
    /\ UNCHANGED <<view, uploads, gen, phase, upResult, upIssued, tSched,
                   pendRecv>>

\* the timer callback: () => pollAnalysisResults(filename)
TimerFires(t) ==
    /\ t \in timers
    /\ timers' = timers \ {t}
    /\ pollAnalysisResults(t.gen, t.filename)
    /\ tFired' = [tFired EXCEPT ![t.gen] = @ + 1]
    /\ lastEvent' = Event("timer", t.gen)
    /\ UNCHANGED <<view, uploads, gen, phase, upResult, upIssued, tSched,
                   pendRecv>>

\* ------------------------------------------------------- specifications
DropInputs == {<< >>} \cup {<<f>> : f \in Files}

UserDrops == (\E fs \in DropInputs : Drop(fs)) /\ Render

UploadResponds ==
    /\ \E r \in uploads :
         \/ UploadTransportError(r)
         \/ UploadNotOk(r)
         \/ UploadBodyUnparseable(r)
         \/ UploadBodyNull(r)
         \/ \E data \in UploadBodies : UploadAccepted(r, data)
    /\ Render

PollResponds ==
    /\ \E q \in queries :
         \/ PollTransportError(q)
         \/ PollBodyUnparseable(q)
         \/ PollBodyNull(q)
         \/ \E data \in CompletedBodies : PollCompleted(q, data)
         \/ PollPending(q)
         \/ \E st \in OtherStatuses : PollOtherStatus(q, st)
    /\ Render

TimerElapses == (\E t \in timers : TimerFires(t)) /\ Render

Next ==
    \/ UserDrops
    \/ UploadResponds
    \/ PollResponds
    \/ TimerElapses

Spec == Init /\ [][Next]_vars

\* handleFileUpload has no guard of its own: a call that does not pass
\* through the disabled dropzone starts a session whatever loading is.
ForcedSelect(file) == handleFileUpload(file) /\ Render

NextForced ==
    \/ Next
    \/ \E f \in Files : ForcedSelect(f)

SpecForced == Init /\ [][NextForced]_vars

\* A backend that answers every status query with pending_analysis; requests
\* are answered and timers fire.
StillPending == (\E q \in queries : PollPending(q)) /\ Render

NextAlwaysPending ==
    \/ UserDrops
    \/ UploadResponds
    \/ StillPending
    \/ TimerElapses

SpecAlwaysPending ==
    /\ Init
    /\ [][NextAlwaysPending]_vars
    /\ WF_vars(StillPending)
    /\ WF_vars(TimerElapses)

\* The presenter on a range of scores: a session that is polling receives
\* a completed answer carrying any score of PresentScores.
PresentScores ==
    {0, 1, 4, 5, 9, 30000, 99994, 99995, ScoreScale}
        \cup ((Half - 10)..(Half + 10)) \cup (86745..86755)

PresentBodies == [status : {"completed"}, prediction : PresentScores,
                  visualization : Visualizations]

InitPresent ==
    /\ \E body \in UploadBodies :
         /\ uploadedFile = Some(body)
         /\ queries = {[gen |-> 1, filename |-> body.filename]}
         /\ lastEvent = EventWith("uploadAccepted", 1, body)
    /\ analysisResults = Null
    /\ loading = TRUE
    /\ error = Null
    /\ uploads = {}
    /\ timers = {}
    /\ gen = 1
    /\ phase = [g \in Sessions |-> IF g = 1 THEN "Polling" ELSE "None"]
    /\ upResult = [g \in Sessions |-> IF g = 1 THEN "uploadAccepted" ELSE "none"]
    /\ upIssued = [g \in Sessions |-> IF g = 1 THEN 1 ELSE 0]
    /\ qIssued = [g \in Sessions |-> IF g = 1 THEN 1 ELSE 0]
    /\ tSched = [g \in Sessions |-> 0]
    /\ tFired = [g \in Sessions |-> 0]
    /\ pendRecv = [g \in Sessions |-> 0]
    /\ rendered = Null

ResultArrives ==
    /\ \E q \in queries : \E data \in PresentBodies : PollCompleted(q, data)
    /\ Render

SpecPresent == InitPresent /\ [][ResultArrives]_vars

\* ----------------------------------------------------------------- claims
Outstanding == Cardinality(uploads) + Cardinality(queries) + Cardinality(timers)
Of(S, g) == {x \in S : x.gen = g}
DropKinds == {"select", "dropEmpty", "dropDisabled"}
Terminal == {"Done", "Errored"}
Happened(k) == lastEvent' # lastEvent /\ lastEvent'.kind \in k

\* C1: a file drop that arrives while loading is true is a no-op: loading,
\* error, analysisResults and uploadedFile keep their values and no upload
\* request is issued.
C1_SelectWhileBusyIsNoOp ==
    [][(loading /\ Happened(DropKinds))
         => UNCHANGED <<loading, error, analysisResults, uploadedFile,
                        uploads, upIssued, gen>>]_vars

C1_Witness ==
    /\ loading
    /\ lastEvent.kind = "dropDisabled"
    /\ uploads # {}

\* C2: at most one upload request, status query or re-poll timer is
\* outstanding at any time, and a select is accepted only when every earlier
\* session has made its terminal transition to Done or Errored.
C2_OneActiveSession ==
    /\ [](Outstanding <= 1)
    /\ [][gen' # gen
            => /\ Outstanding = 0
               /\ \A g \in 1..gen : phase[g] \in Terminal]_vars

C2_Witness ==
    /\ gen = 2
    /\ phase[1] \in Terminal
    /\ phase[2] = "Polling"
    /\ Outstanding = 1

\* C3: when the upload succeeds and the backend answers pending_analysis n
\* times and then completed, exactly n+1 status queries are issued, every
\* query after the first is issued by a fired re-poll timer of delay 2000
\* that a pending answer scheduled, and the session ends in Done: loading
\* false, analysisResults the completed payload, error null.
C3_PollingSequence ==
    /\ [](lastEvent.kind = "pollCompleted"
            => LET g == lastEvent.gen IN
               /\ upResult[g] = "uploadAccepted"
               /\ qIssued[g] = pendRecv[g] + 1
               /\ tFired[g] = pendRecv[g]
               /\ tSched[g] = pendRecv[g]
               /\ phase[g] = "Done"
               /\ loading = FALSE
               /\ analysisResults = lastEvent.data
               /\ error = Null
               /\ Outstanding = 0)
    /\ [][\A g \in Sessions :
            (qIssued'[g] > qIssued[g] /\ qIssued[g] >= 1)
              => /\ qIssued'[g] = qIssued[g] + 1
                 /\ tFired'[g] = tFired[g] + 1
                 /\ tFired[g] < pendRecv[g]
                 /\ \E t \in timers \ timers' :
                        t.gen = g /\ t.delay = RepollDelay]_vars

C3_Witness ==
    /\ lastEvent.kind = "pollCompleted"
    /\ pendRecv[lastEvent.gen] = 2
    /\ qIssued[lastEvent.gen] = 3
    /\ analysisResults = lastEvent.data

\* C4: when the upload fails (transport error or non-2xx response) the
\* session goes from Uploading straight to Errored, with loading false and
\* an error message set, and no status query is ever issued and no re-poll
\* timer is ever scheduled for it.
UploadFailures == {"uploadTransport", "uploadNotOk"}

C4_UploadFailureSkipsPolling ==
    /\ [](\A g \in Sessions :
            upResult[g] \in UploadFailures
              => /\ qIssued[g] = 0
                 /\ tSched[g] = 0
                 /\ Of(queries, g) = {}
                 /\ Of(timers, g) = {}
                 /\ phase[g] = "Errored")
    /\ [][Happened(UploadFailures)
            => /\ phase[lastEvent'.gen] = "Uploading"
               /\ loading' = FALSE
               /\ error' \in {Some(MsgFetch), Some(MsgUpload)}]_vars

C4_Witness ==
    /\ lastEvent.kind \in UploadFailures
    /\ loading = FALSE
    /\ error # Null
    /\ qIssued[lastEvent.gen] = 0

\* C5: a status answer whose status is neither pending_analysis nor
\* completed takes the session out of Polling into Errored: loading becomes
\* false and an error message is set.
C5_OtherStatusErrors ==
    lastEvent.kind = "pollOther" => (loading = FALSE /\ error # Null)

\* C6: once a new session has been started, an answer to a status query of an
\* earlier session never changes loading, error or analysisResults.
PollKinds == {"pollTransport", "pollBadJson", "pollNullBody", "pollCompleted",
              "pollPending", "pollOther"}

C6_StalePollNotApplied ==
    [][(Happened(PollKinds) /\ lastEvent'.gen < gen)
         => UNCHANGED <<loading, error, analysisResults>>]_vars

\* C7: at most one of loading = true, error != null, analysisResults != null
\* holds in every reachable state.
C7_OneViewState ==
    /\ ~(loading /\ error # Null)
    /\ ~(loading /\ analysisResults # Null)
    /\ ~(error # Null /\ analysisResults # Null)

\* C8: polls of one job are strictly sequential: never two status queries
\* outstanding for one handle, never a status query and a re-poll timer
\* pending together, each pending_analysis answer schedules exactly one
\* re-poll timer, and the re-poll is issued only when that timer fires, after
\* the answer.
Handles == Filenames \cup {Undefined}

C8_SequentialPolls ==
    /\ [](/\ \A fn \in Handles :
                Cardinality({q \in queries : q.filename = fn}) <= 1
          /\ (queries = {} \/ timers = {})
          /\ \A g \in Sessions :
                /\ Cardinality(Of(queries, g)) + Cardinality(Of(timers, g)) <= 1
                /\ tSched[g] = pendRecv[g]
                /\ tFired[g] <= tSched[g])
    /\ [][Happened({"pollPending"})
            => \E q \in queries :
                 /\ q.gen = lastEvent'.gen
                 /\ queries' = queries \ {q}
                 /\ qIssued' = qIssued
                 /\ Cardinality(timers') = Cardinality(timers) + 1
                 /\ timers' = timers \cup {[gen |-> q.gen,
                                            filename |-> q.filename,
                                            delay |-> RepollDelay]}]_vars
    /\ [][Happened({"timer"})
            => \E t \in timers :
                 /\ t.gen = lastEvent'.gen
                 /\ timers' = timers \ {t}
                 /\ Of(queries, t.gen) = {}
                 /\ queries' = queries \cup {[gen |-> t.gen,
                                              filename |-> t.filename]}
                 /\ qIssued'[t.gen] = qIssued[t.gen] + 1]_vars

C8_Witness ==
    /\ lastEvent.kind = "timer"
    /\ tFired[lastEvent.gen] = 2
    /\ Cardinality(queries) = 1
    /\ timers = {}

\* C9: when a status query fails at the transport level (the fetch or the
\* reading of its body throws) the session goes from Polling to Errored:
\* loading becomes false, error is set to a message, and no re-poll timer is
\* scheduled.
PollTransportFailures == {"pollTransport", "pollBadJson"}

C9_PollTransportFailure ==
    [][Happened(PollTransportFailures)
         => LET g == lastEvent'.gen IN
            /\ phase[g] = "Polling"
            /\ phase'[g] = "Errored"
            /\ loading' = FALSE
            /\ error' = Some(MsgPoll)
            /\ timers' = timers
            /\ Of(timers', g) = {}
            /\ tSched' = tSched]_vars

C9_Witness ==
    /\ lastEvent.kind \in PollTransportFailures
    /\ pendRecv[lastEvent.gen] >= 1
    /\ loading = FALSE
    /\ error = Some(MsgPoll)

\* C10: there is no automatic retry: each accepted select issues exactly one
\* upload request, upload requests are issued by selects only, and once a
\* session has failed (upload failure or poll transport failure) it issues no
\* further upload request, status query or re-poll timer.
C10_NoAutomaticRetry ==
    /\ [](\A g \in Sessions :
            /\ upIssued[g] = IF g <= gen THEN 1 ELSE 0
            /\ phase[g] = "Errored"
                 => /\ Of(uploads, g) = {}
                    /\ Of(queries, g) = {}
                    /\ Of(timers, g) = {})
    /\ [][\A g \in Sessions :
            phase[g] = "Errored"
              => /\ upIssued'[g] = upIssued[g]
                 /\ qIssued'[g] = qIssued[g]
                 /\ tSched'[g] = tSched[g]]_vars
    /\ [][upIssued' # upIssued
            => /\ lastEvent'.kind = "select"
               /\ gen' = gen + 1
               /\ Cardinality(uploads') = Cardinality(uploads) + 1]_vars

C10_Witness ==
    /\ gen = 2
    /\ phase[1] = "Errored"
    /\ upIssued[1] = 1
    /\ upIssued[2] = 1
    /\ lastEvent.kind \in UploadFailures \cup PollTransportFailures

\* C11: polling has no maximum attempt count: against a backend that always
\* answers pending_analysis, every k-th status query (k up to MaxPending + 1)
\* is eventually issued once the upload has been accepted, and the session
\* never leaves Polling: loading stays true, error and analysisResults keep
\* their values.
C11_UnboundedPolling ==
    /\ \A g \in Sessions : \A k \in 1..(MaxPending + 1) :
          (upResult[g] = "uploadAccepted") ~> (qIssued[g] >= k)
    /\ [][\A g \in Sessions :
            phase[g] = "Polling"
              => /\ phase'[g] = "Polling"
                 /\ loading' = TRUE
                 /\ UNCHANGED <<error, analysisResults>>]_vars

C11_Witness ==
    /\ phase[1] = "Polling"
    /\ pendRecv[1] = 2
    /\ qIssued[1] = 3
    /\ loading = TRUE
    /\ error = Null

\* C12: for every score p in [0,1] the presenter shows 'Tumor Detected'
\* exactly when p > 0.5; for p = 0.5 and every p below it shows
\* 'No Tumor Detected'.
C12_ThresholdExclusive ==
    rendered # Null
      => LET p == analysisResults[1].prediction IN
         /\ rendered[1].label \in {"Tumor Detected", "No Tumor Detected"}
         /\ (rendered[1].label = "Tumor Detected") <=> (p > Half)
         /\ (p <= Half) => (rendered[1].label = "No Tumor Detected")

C12_Witness ==
    /\ rendered # Null
    /\ analysisResults[1].prediction = Half
    /\ rendered[1].label = "No Tumor Detected"

\* C13: the confidence shown is the score times 100 with exactly two
\* decimals (w.dd, within half a hundredth of the exact value), followed by
\* '%': 0.8675 shows 86.75% and 0.3 shows 30.00; a visualization makes no
\* difference to it.
C13_ConfidenceTwoDecimals ==
    rendered # Null
      => LET r == analysisResults[1]
             p == r.prediction
             lo == (100 * p) \div (ScoreScale \div 100)
         IN
         /\ \E n \in {lo, lo + 1} :
              /\ rendered[1].chip =
                    "Confidence: " \o ToString(n \div 100) \o "."
                        \o ToString((n \div 10) % 10) \o ToString(n % 10)
                        \o "%"
              /\ 2 * (n * ScoreScale - 100 * 100 * p) <= ScoreScale
              /\ 2 * (100 * 100 * p - n * ScoreScale) <= ScoreScale
         /\ (p = 86750) => rendered[1].chip = "Confidence: 86.75%"
         /\ (p = 30000) => rendered[1].chip = "Confidence: 30.00%"
         /\ \A v \in Visualizations :
              AnalysisResults([r EXCEPT !.visualization = v]).chip
                  = rendered[1].chip

C13_Witness ==
    /\ rendered # Null
    /\ analysisResults[1].prediction = 30000
    /\ analysisResults[1].visualization = Null
    /\ rendered[1].chip = "Confidence: 30.00%"
    /\ rendered[1].label = "No Tumor Detected"
    /\ rendered[1].img = Null

\* C14: Done and Errored are terminal: whenever loading is false nothing is
\* outstanding (no upload request, status query or re-poll timer), so
\* loading, error and analysisResults change again only by a select, and a
\* session that leaves Polling leaves no query or re-poll timer behind.
C14_TerminalStates ==
    /\ [](loading = FALSE => Outstanding = 0)
    /\ [][(loading = FALSE /\ lastEvent'.kind # "select")
            => UNCHANGED <<loading, error, analysisResults>>]_vars
    /\ [][\A g \in Sessions :
            (phase[g] = "Polling" /\ phase'[g] # "Polling")
              => /\ phase'[g] \in Terminal
                 /\ Of(timers', g) = {}
                 /\ Of(queries', g) = {}]_vars

C14_Witness ==
    /\ loading = FALSE
    /\ phase[1] = "Done"
    /\ pendRecv[1] >= 1
    /\ Outstanding = 0
    /\ lastEvent.kind = "dropEmpty"

\* C15: from Idle, Done or Errored (loading false) a select of any file is
\* accepted and starts a fresh session: loading becomes true, error becomes
\* null and exactly one upload request, for the selected file, is issued.
C15_SelectStartsSession ==
    /\ []((loading = FALSE /\ gen < MaxSessions)
            => \A f \in Files :
                 ENABLED (/\ Drop(<<f>>)
                          /\ Render
                          /\ loading' = TRUE
                          /\ error' = Null
                          /\ uploads' = {[gen |-> gen + 1, file |-> f]}
                          /\ phase'[gen + 1] = "Uploading"))
    /\ [][Happened({"select"})
            => /\ loading = FALSE
               /\ loading' = TRUE
               /\ error' = Null
               /\ \E f \in Files : uploads' = {[gen |-> gen', file |-> f]}
               /\ upIssued'[gen'] = 1
               /\ queries' = {}
               /\ timers' = {}]_vars

C15_Witness ==
    /\ lastEvent.kind = "select"
    /\ gen = 2
    /\ phase[1] = "Errored"
    /\ loading = TRUE
    /\ error = Null
    /\ Cardinality(uploads) = 1

\* C16: a 2xx upload response whose body is malformed (unparseable, null, or
\* without a filename) is not an acceptance: the session ends Errored and
\* no status query is issued for it.
C16_MalformedBodyRejected ==
    (\/ lastEvent.kind \in {"uploadBadJson", "uploadNullBody"}
     \/ /\ lastEvent.kind = "uploadAccepted"
        /\ lastEvent.data = Some([filename |-> Undefined]))
      => /\ phase[lastEvent.gen] = "Errored"
         /\ qIssued[lastEvent.gen] = 0
         /\ loading = FALSE
         /\ error # Null

\* C17: busy and error never coexist: loading = true implies error = null;
\* every step that sets an error leaves loading false and every step that
\* sets loading true leaves error null.
C17_BusyExcludesError ==
    /\ [](loading = TRUE => error = Null)
    /\ [][(error' # error /\ error' # Null) => loading' = FALSE]_vars
    /\ [][(loading' = TRUE /\ loading = FALSE) => error' = Null]_vars

C17_Witness ==
    /\ loading = TRUE
    /\ error = Null
    /\ gen = 2
    /\ phase[1] = "Errored"
    /\ phase[2] = "Polling"

\* C18: a displayed result is never cleared: once analysisResults is
\* non-null it stays non-null (and displayed) through every later step, and
\* its value changes only when a status query of a later session returns
\* completed, to that answer's payload.
C18_ResultNeverCleared ==
    [][analysisResults # Null
         => /\ analysisResults' # Null
            /\ rendered' # Null
            /\ (analysisResults' # analysisResults
                  => /\ lastEvent'.kind = "pollCompleted"
                     /\ analysisResults' = lastEvent'.data
                     /\ phase[lastEvent'.gen] = "Polling"
                     /\ \E g \in 1..(lastEvent'.gen - 1) :
                           phase[g] = "Done")]_vars

C18_Witness ==
    /\ gen = 2
    /\ phase[1] = "Done"
    /\ phase[2] = "Errored"
    /\ analysisResults # Null
    /\ rendered # Null
    /\ error # Null
====
